---- MODULE Spec2Model ----
(***************************************************************************)
(* Model of src/app/app.py: the Flask route POST /ping.                    *)
(*                                                                         *)
(* A request carries a form; the handler reads the field "host", checks it *)
(* with re.match(r"^[a-zA-Z0-9.\-]+$", host), answers 400 "Invalid host"   *)
(* when the check fails, and otherwise calls                               *)
(*   subprocess.run(["ping", "-c", "1", host], capture_output=True,        *)
(*                  text=True)                                             *)
(* and returns result.stdout.                                              *)
(*                                                                         *)
(* A host is a sequence of one-character strings.  A text (a response body *)
(* or a captured stream) is a sequence of lines.                           *)
(***************************************************************************)
EXTENDS Integers, Sequences, FiniteSets, TLC

\* ------------------------------------------------------------- bounds

\* Number of requests the server handles concurrently.
NumRequests == 3

\* Longest host of the exhaustive host enumeration (HostSpec).
MaxHostLen == 3

\* ------------------------------------------------------------- characters

Lower == {"a", "b", "c", "d", "e", "f", "g", "h", "i", "j", "k", "l", "m",
          "n", "o", "p", "q", "r", "s", "t", "u", "v", "w", "x", "y", "z"}

Upper == {"A", "B", "C", "D", "E", "F", "G", "H", "I", "J", "K", "L", "M",
          "N", "O", "P", "Q", "R", "S", "T", "U", "V", "W", "X", "Y", "Z"}

Digit == {"0", "1", "2", "3", "4", "5", "6", "7", "8", "9"}

\* The character class [a-zA-Z0-9.\-] of the pattern.
HostClass == Lower \cup Upper \cup Digit \cup {".", "-"}

\* The line feed, the one character Python's "$" treats specially.
LF == "\n"

\* ------------------------------------------------------------- re.match

\* "$" without re.MULTILINE: matches at the end of the string and also just
\* before a line feed that is the last character of the string.
Dollar(h, n) ==
    \/ n = Len(h)
    \/ n = Len(h) - 1 /\ h[Len(h)] = LF

ReMatchEmptyOk(h) ==
    \E n \in 0..Len(h) :
        /\ \A i \in 1..n : h[i] \in HostClass
        /\ Dollar(h, n)

\* re.match(r"^[a-zA-Z0-9.\-]+$", host) is not None: some n >= 1 leading
\* characters of the class, followed by a position where "$" matches.
ReMatch(h) ==
    \E n \in 1..Len(h) :
        /\ \A i \in 1..n : h[i] \in HostClass
        /\ Dollar(h, n)

\* ------------------------------------------------------------- the form

\* request.form.get(key, default): a form is a set of <<key, value>> pairs.
FormGet(f, key, default) ==
    IF \E p \in f : p[1] = key
    THEN (CHOOSE p \in f : p[1] = key)[2]
    ELSE default

\* ------------------------------------------------------------- subprocess.run

ProbeArgvShellString(h) == <<"sh", "-c", <<"ping -c 1 ">> \o h>>

ProbeArgvNoCount(h) == <<"ping", h>>

\* The argument vector of line 21.
ProbeArgv(h) == <<"ping", "-c", "1", h>>

\* subprocess.run is called without shell=True.
UseShell == FALSE

CheckReturnCodeOn == TRUE

\* subprocess.run is called without check=True: a non-zero exit status does
\* not raise CalledProcessError.
CheckReturnCode == FALSE

\* The status Flask gives a view's bare string return value.
DefaultStatus == 200

\* The status of line 17.
InvalidStatus == 400

InvalidBody == <<"Invalid host">>

ResponseBodyWithStderr(res) == res.stdout \o res.stderr

\* Line 26: the body is result.stdout.
ResponseBody(res) == res.stdout

\* ------------------------------------------------------------- inputs

Requests == 1..NumRequests

\* A sample of characters: one of each part of the class, and characters
\* outside it.
Alphabet == {"a", "Z", "7", ".", "-", " ", ";", "|", "$", LF}

HostsUpTo(n) == UNION {[1..k -> Alphabet] : k \in 0..n}

\* Hosts at and just over the DNS name limit.
LongHosts == {[i \in 1..n |-> "a"] : n \in {253, 254}}

Loopback == <<"1", "2", "7", ".", "0", ".", "0", ".", "1">>

Unknown == <<"9", "9", "9", ".", "9", "9", "9", ".", "9", "9", "9", ".",
             "9", "9", "9">>

Injection == <<"8", ".", "8", ".", "8", ".", "8", ";", " ", "t", "o", "u",
               "c", "h", " ", "/", "t", "m", "p", "/", "p", "w", "n", "e",
               "d">>

SampleHosts == {<< >>, Loopback, Injection}

FormsOf(hosts) == {{}} \cup {{<<"host", h>>} : h \in hosts}

SampleForms == FormsOf(SampleHosts)

AllForms ==
    FormsOf(HostsUpTo(MaxHostLen) \cup LongHosts \cup SampleHosts \cup {Unknown})

\* What a child process can leave behind: exit status and the two streams.
Results ==
    { [returncode |-> 0, stdout |-> <<"1 received">>, stderr |-> << >>],
      [returncode |-> 0, stdout |-> <<"1 received">>, stderr |-> <<"warning">>],
      [returncode |-> 1, stdout |-> <<"0 received">>, stderr |-> << >>],
      [returncode |-> 2, stdout |-> << >>, stderr |-> <<"unknown host">>] }

\* What Popen raises when the program cannot be started.
SpawnErrors == {"FileNotFoundError", "PermissionError"}

\* ------------------------------------------------------------- state

VARIABLES
    pc,        \* per request: where its handler is
    form,      \* per request: the submitted form
    host,      \* per request: the handler's local variable host
    matched,   \* per request: the hosts on which re.match succeeded
    spawned,   \* per request: the process creations asked of subprocess.run
    child,     \* per request: the state of its child process
    result,    \* per request: the CompletedProcess, when there is one
    response,  \* per request: what the handler returned, when it returned
    raised     \* per request: the exception that left the handler, if any

vars == <<pc, form, host, matched, spawned, child, result, response, raised>>

Init ==
    /\ pc = [r \in Requests |-> "idle"]
    /\ form = [r \in Requests |-> {}]
    /\ host = [r \in Requests |-> << >>]
    /\ matched = [r \in Requests |-> {}]
    /\ spawned = [r \in Requests |-> << >>]
    /\ child = [r \in Requests |-> "none"]
    /\ result = [r \in Requests |-> << >>]
    /\ response = [r \in Requests |-> << >>]
    /\ raised = [r \in Requests |-> "none"]

ResultOfShared(r) == result[CHOOSE q \in Requests : result[q] # << >>][1]

\* The handler's local variable result, one per call of ping().
ResultOf(r) == result[r][1]

\* ------------------------------------------------------------- actions

\* A POST /ping arrives and Flask calls ping().
Arrive(r, f) ==
    /\ pc[r] = "idle"
    /\ pc' = [pc EXCEPT ![r] = "line13"]
    /\ form' = [form EXCEPT ![r] = f]
    /\ UNCHANGED <<host, matched, spawned, child, result, response, raised>>

\* Line 13.
GetHost(r) ==
    /\ pc[r] = "line13"
    /\ host' = [host EXCEPT ![r] = FormGet(form[r], "host", << >>)]
    /\ pc' = [pc EXCEPT ![r] = "line16"]
    /\ UNCHANGED <<form, matched, spawned, child, result, response, raised>>

\* Lines 16-17.
Validate(r) ==
    /\ pc[r] = "line16"
    /\ IF ReMatch(host[r])
       THEN /\ matched' = [matched EXCEPT ![r] = @ \cup {host[r]}]
            /\ pc' = [pc EXCEPT ![r] = "line20"]
            /\ UNCHANGED response
       ELSE /\ response' = [response EXCEPT ![r] =
                              <<[status |-> InvalidStatus, body |-> InvalidBody]>>]
            /\ pc' = [pc EXCEPT ![r] = "returned"]
            /\ UNCHANGED matched
    /\ UNCHANGED <<form, host, spawned, child, result, raised>>

\* Lines 20-24, the program starts: the handler blocks in subprocess.run.
RunSpawn(r) ==
    /\ pc[r] = "line20"
    /\ spawned' = [spawned EXCEPT ![r] =
                     Append(@, [argv |-> ProbeArgv(host[r]), shell |-> UseShell])]
    /\ child' = [child EXCEPT ![r] = "running"]
    /\ pc' = [pc EXCEPT ![r] = "waiting"]
    /\ UNCHANGED <<form, host, matched, result, response, raised>>

\* Lines 20-24, the program cannot be started: Popen raises and nothing in
\* ping() catches it.
RunSpawnFail(r, e) ==
    /\ pc[r] = "line20"
    /\ spawned' = [spawned EXCEPT ![r] =
                     Append(@, [argv |-> ProbeArgv(host[r]), shell |-> UseShell])]
    /\ child' = [child EXCEPT ![r] = "failed"]
    /\ raised' = [raised EXCEPT ![r] = e]
    /\ pc' = [pc EXCEPT ![r] = "raised"]
    /\ UNCHANGED <<form, host, matched, result, response>>

\* The child process ends, leaving its exit status and its streams.
ChildExit(r, res) ==
    /\ child[r] = "running"
    /\ child' = [child EXCEPT ![r] = "exited"]
    /\ result' = [result EXCEPT ![r] = <<res>>]
    /\ UNCHANGED <<pc, form, host, matched, spawned, response, raised>>

\* The child process is one that never ends.
ChildHang(r) ==
    /\ child[r] = "running"
    /\ child' = [child EXCEPT ![r] = "hung"]
    /\ UNCHANGED <<pc, form, host, matched, spawned, result, response, raised>>

\* Lines 20-24, subprocess.run returns: no timeout is given, so it returns
\* only once the child has ended.
RunReturn(r) ==
    /\ pc[r] = "waiting"
    /\ child[r] = "exited"
    /\ IF CheckReturnCode /\ ResultOf(r).returncode # 0
       THEN /\ raised' = [raised EXCEPT ![r] = "CalledProcessError"]
            /\ pc' = [pc EXCEPT ![r] = "raised"]
       ELSE /\ pc' = [pc EXCEPT ![r] = "line26"]
            /\ UNCHANGED raised
    /\ UNCHANGED <<form, host, matched, spawned, child, result, response>>

\* Line 26.
Return(r) ==
    /\ pc[r] = "line26"
    /\ response' = [response EXCEPT ![r] =
                      <<[status |-> DefaultStatus, body |-> ResponseBody(ResultOf(r))]>>]
    /\ pc' = [pc EXCEPT ![r] = "returned"]
    /\ UNCHANGED <<form, host, matched, spawned, child, result, raised>>

\* ------------------------------------------------------------- specifications

\* The steps of the handler of request r and of its child process.
Handle(r) ==
    \/ GetHost(r)
    \/ Validate(r)
    \/ RunSpawn(r)
    \/ \E e \in SpawnErrors : RunSpawnFail(r, e)
    \/ \E res \in Results : ChildExit(r, res)
    \/ ChildHang(r)
    \/ RunReturn(r)
    \/ Return(r)

\* The server: requests arrive and are handled concurrently.
Next ==
    \E r \in Requests :
        \/ \E f \in SampleForms : Arrive(r, f)
        \/ Handle(r)

Spec == Init /\ [][Next]_vars

\* One request, over every host of the enumeration.
NextHost ==
    \/ \E f \in AllForms : Arrive(1, f)
    \/ Handle(1)

HostSpec == Init /\ [][NextHost]_vars

\* The server with its threads scheduled fairly: a handler that can take a
\* step takes it, and a running child ends unless it is one that never does.
\* Arrivals and ChildHang are the environment's choice.
Fairness ==
    \A r \in Requests :
        /\ WF_vars(GetHost(r))
        /\ WF_vars(Validate(r))
        /\ WF_vars(RunSpawn(r) \/ \E e \in SpawnErrors : RunSpawnFail(r, e))
        /\ WF_vars(\E res \in Results : ChildExit(r, res))
        /\ WF_vars(RunReturn(r))
        /\ WF_vars(Return(r))

FairSpec == Init /\ [][Next]_vars /\ Fairness

\* ------------------------------------------------------------- properties

\* The host the client submitted: the form's field, the empty string when
\* the form has none.
Submitted(r) == FormGet(form[r], "host", << >>)

HasForeignChar(h) == \E i \in 1..Len(h) : h[i] \notin HostClass

AllInClass(h) == Len(h) >= 1 /\ \A i \in 1..Len(h) : h[i] \in HostClass

\* The handler has run past the check of line 16.
Checked(r) == pc[r] \notin {"idle", "line13", "line16"}

\* The handler has run past the call of subprocess.run's process creation.
PastSpawn(r) == pc[r] \in {"waiting", "line26", "returned", "raised"}

Ended(r) == pc[r] \in {"returned", "raised"}

Rejected(r) ==
    /\ pc[r] = "returned"
    /\ response[r] = <<[status |-> 400, body |-> <<"Invalid host">>]>>
    /\ spawned[r] = << >>

Range(s) == {s[i] : i \in 1..Len(s)}

\* C1: a request whose submitted host holds a character outside letters,
\* digits, dot and hyphen, at any position, is answered 400 "Invalid host"
\* and no process is ever created for it.
C1_ForeignCharRejected ==
    \A r \in Requests :
        (pc[r] # "idle" /\ HasForeignChar(Submitted(r))) =>
            /\ spawned[r] = << >>
            /\ Checked(r) => Rejected(r)

\* C2: a request whose submitted host is non-empty and made only of letters,
\* digits, dot and hyphen asks for exactly one process creation, never a
\* second one, with the argument vector ping, -c, 1, host, the host being the
\* submitted string unchanged, and without a shell.
C2_OneProbeExactArgv ==
    \A r \in Requests :
        (pc[r] # "idle" /\ AllInClass(Submitted(r))) =>
            /\ Len(spawned[r]) <= 1
            /\ PastSpawn(r) <=> Len(spawned[r]) = 1
            /\ pc[r] = "returned" => Len(spawned[r]) = 1
            /\ \A i \in 1..Len(spawned[r]) :
                  /\ spawned[r][i].argv = <<"ping", "-c", "1", Submitted(r)>>
                  /\ spawned[r][i].shell = FALSE

C2_Witness ==
    \E r \in Requests :
        /\ pc[r] = "returned"
        /\ AllInClass(Submitted(r))
        /\ Len(Submitted(r)) >= 2
        /\ Len(spawned[r]) = 1

\* C3: a request whose form has no host field, or an empty one, is answered
\* 400 and no process is created for it.
C3_MissingOrEmptyRejected ==
    \A r \in Requests :
        (pc[r] # "idle" /\ Submitted(r) = << >>) =>
            /\ spawned[r] = << >>
            /\ child[r] = "none"
            /\ Checked(r) => Rejected(r)

C3_Witness ==
    /\ \E r \in Requests : form[r] = {} /\ Rejected(r)
    /\ \E r \in Requests : form[r] = {<<"host", << >> >>} /\ Rejected(r)

\* C4: once the check has passed and the child process has ended, the handler
\* raises nothing, and what it returns is status 200 with exactly the child's
\* standard output as body, no line of which comes from its standard error.
C4_BodyIsStdout ==
    \A r \in Requests :
        child[r] = "exited" =>
            /\ pc[r] # "raised"
            /\ pc[r] = "returned" =>
                  /\ response[r] =
                        <<[status |-> 200, body |-> result[r][1].stdout]>>
                  /\ Range(response[r][1].body) \cap Range(result[r][1].stderr) = {}

C4_Witness ==
    \E r \in Requests :
        /\ pc[r] = "returned"
        /\ child[r] = "exited"
        /\ result[r][1].stderr # << >>
        /\ result[r][1].stdout # << >>

\* C5: a child process that ended with a non-zero exit status never makes the
\* handler raise or answer with an error: the request ends with status 200
\* and the captured standard output as body.
C5_NonZeroExitIs200 ==
    \A r \in Requests :
        (child[r] = "exited" /\ result[r][1].returncode # 0) =>
            /\ raised[r] = "none"
            /\ pc[r] \in {"waiting", "line26", "returned"}
            /\ pc[r] = "returned" =>
                  /\ response[r][1].status = 200
                  /\ response[r][1].body = result[r][1].stdout

C5_Witness ==
    \E r \in Requests :
        /\ pc[r] = "returned"
        /\ Submitted(r) = Unknown
        /\ result[r] # << >>
        /\ result[r][1].returncode # 0
        /\ response[r][1].status = 200

\* C6: when the program cannot be started, the handler catches the failure
\* and returns a 5xx response; no exception leaves the handler.
C6_SpawnFailureCaught ==
    \A r \in Requests :
        child[r] = "failed" =>
            /\ raised[r] = "none"
            /\ pc[r] # "raised"
            /\ pc[r] = "returned" => response[r][1].status \in 500..599

\* C7: every request that arrived is eventually answered: the handler does
\* not wait for as long as the child process runs.
C7_EventuallyAnswered ==
    \A r \in Requests : (pc[r] = "line13") ~> Ended(r)

\* C8: a host of letters, digits, dots and hyphens of at most 253 characters
\* is probed, and no probe is ever attempted with a host of more than 253
\* characters.
C8_LengthLimit ==
    \A r \in Requests :
        /\ (Checked(r) /\ AllInClass(Submitted(r)) /\ Len(Submitted(r)) <= 253)
               => (pc[r] = "line20" \/ Len(spawned[r]) = 1)
        /\ \A i \in 1..Len(spawned[r]) :
               LET a == spawned[r][i].argv IN Len(a[Len(a)]) <= 253

\* C9: two requests that have returned, with the same host and the same
\* result of their own child process, have the same status and body, whatever
\* the other requests did before or meanwhile.
C9_OwnInputsDecide ==
    \A r1, r2 \in Requests :
        (/\ pc[r1] = "returned"
         /\ pc[r2] = "returned"
         /\ host[r1] = host[r2]
         /\ result[r1] = result[r2]) => response[r1] = response[r2]

C9_Witness ==
    \E r1, r2, r3 \in Requests :
        /\ r1 # r2 /\ r1 # r3 /\ r2 # r3
        /\ pc[r1] = "returned" /\ pc[r2] = "returned" /\ pc[r3] = "returned"
        /\ host[r1] = host[r2] /\ host[r1] = host[r3]
        /\ result[r1] = result[r2]
        /\ result[r1] # << >>
        /\ result[r3] # << >>
        /\ result[r3] # result[r1]
        /\ response[r1] = response[r2]
        /\ response[r3] # response[r1]

\* C10: every process creation has an argument vector of exactly four
\* elements, the first three being ping, -c, 1, and the fourth the host of
\* that request, on which the check of line 16 had succeeded before.
C10_CheckedBeforeSpawn ==
    \A r \in Requests :
        \A i \in 1..Len(spawned[r]) :
            LET a == spawned[r][i].argv IN
                /\ Len(a) = 4
                /\ a[1] = "ping" /\ a[2] = "-c" /\ a[3] = "1"
                /\ a[4] = host[r]
                /\ a[4] \in matched[r]
                /\ PastSpawn(r)

C10_Witness ==
    \E r \in Requests :
        /\ spawned[r] # << >>
        /\ HasForeignChar(host[r])
        /\ host[r] \in matched[r]

====
